---- MODULE Spec2Model ----
(***************************************************************************)
(* A model of the unidirectional channel of libos/src/fs/channel.rs: one   *)
(* ring buffer shared by a producer endpoint and a consumer endpoint, the  *)
(* two shutdown flags, the per-endpoint non-blocking flag, buffer mutex    *)
(* and waiter queue, and the waiter_loop! retry discipline of push,        *)
(* push_slice, pop and pop_slice.                                          *)
(*                                                                         *)
(* Threads: "p" calls the producer's push / push_slice, "c" calls the      *)
(* consumer's pop / pop_slice, and a third thread "a" calls shutdown and   *)
(* set_nonblocking on either endpoint.  A step is one                      *)
(* access to state that another thread can change or observe; a mutex      *)
(* acquisition is merged with the reads and writes that follow it only     *)
(* where no other thread can tell the difference.  The items are generic   *)
(* (Channel<I> never looks at them), so the k-th item handed to the        *)
(* producer is the number k.                                               *)
(***************************************************************************)
EXTENDS Integers, Sequences, FiniteSets, TLC

\* ---------------------------------------------------------------- bounds
MaxCapacity == 2
MaxItems == 2
MaxSlice == 2

\* ---------------------------------------------------------------- threads
Workers == {"p", "c"}
Threads == Workers \cup {"a"}
NoThread == "none"

\* The endpoint a worker calls into: "P" the producer, "C" the consumer.
EndPoints == {"P", "C"}
EndPoint(t) == IF t = "p" THEN "P" ELSE "C"
Peer(e) == IF e = "P" THEN "C" ELSE "P"

VARIABLES
    capacity,               \* the capacity given to Channel::new
    rb,                     \* the ring buffer's items, oldest first
    is_producer_shutdown,   \* State.is_producer_shutdown
    is_consumer_shutdown,   \* State.is_consumer_shutdown
    is_nonblocking,         \* EndPoint.is_nonblocking, per endpoint
    inner,                  \* EndPoint.inner: the thread holding the mutex
    waiter_queue,           \* EndPoint.observer's queue of waiters (threads)
    woken,                  \* Waiter.is_woken of each worker's waiter
    pc,                     \* each thread's position
    at,                     \* the endpoint thread "a" is calling into ("P" when idle)
    was_shutdown,           \* thread "a" is in a shutdown() of an endpoint already shut down
    events,                 \* the IoEvents of the poll() thread "a" has made
    call,                   \* each worker's current call
    pushed,                 \* every item written to the ring buffer, in order
    popped,                 \* every item taken out of the ring buffer, in order
    returned                \* per worker: the items its calls returned success for

vars == <<capacity, rb, is_producer_shutdown, is_consumer_shutdown,
          is_nonblocking, inner, waiter_queue, woken, pc, at, was_shutdown,
          events, call, pushed, popped, returned>>

\* ------------------------------------------------------- sequence helpers
Min(a, b) == IF a < b THEN a ELSE b

Take(s, n) == SubSeq(s, 1, Min(n, Len(s)))

Drop(s, n) == SubSeq(s, Min(n, Len(s)) + 1, Len(s))

IsPrefix(s, t) == Len(s) <= Len(t) /\ SubSeq(t, 1, Len(s)) = s

Remove(q, t) == SelectSeq(q, LAMBDA x : x # t)

\* The next n items handed to the producer.
NextItems(n) == [i \in 1..n |-> Len(pushed) + i]

\* ------------------------------------------------ the shared State (4.1)
is_self_shutdown(e) ==
    IF e = "P" THEN is_producer_shutdown ELSE is_consumer_shutdown

is_peer_shutdown(e) ==
    IF e = "P" THEN is_consumer_shutdown ELSE is_producer_shutdown

\* ------------------------------------------------------- the ring buffer
\* Fault variant: a ring buffer one slot larger than asked for.
RbCapacityOff == capacity + 1

\* RingBuffer::new(capacity) of Channel::new: the number of items it holds.
RbCapacity == capacity

RbIsFull == Len(rb) >= RbCapacity

RbIsEmpty == Len(rb) = 0

\* rb_producer.push_slice(items): the number of leading items that fit.
RbPushCount(n) == Min(n, RbCapacity - Len(rb))

\* rb_consumer.pop_slice(buf): the number of items read into a buffer of n.
RbPopCount(n) == Min(n, Len(rb))

\* ------------------------------------------------ waiters and the queue
\* WaiterQueue::reset_and_enqueue: clear the waiter's stale membership and
\* its woken flag, then add it at the tail.
reset_and_enqueue(q, t) == Append(Remove(q, t), t)

\* WaiterQueue::dequeue_and_wake_all on endpoint e: the woken flags after.
WokenAfterWake(e) ==
    [t \in Workers |->
        IF \E i \in 1..Len(waiter_queue[e]) : waiter_queue[e][i] = t
        THEN TRUE ELSE woken[t]]

\* Fault variant: the waiter of a call that returned stays in the queue.
WaiterKept(q, t) == q

\* A waiter that goes out of scope when its call returns leaves the queue.
WaiterDrop(q, t) == Remove(q, t)

\* ------------------------------------------------------------------ Init
\* A call record: the operation and its argument n (the number of items of
\* push and push_slice, the buffer length of pop_slice), its result once
\* returned (res, and val: the items written or read), the shutdown flags as
\* they were when the call was made (e_psd, e_csd), and what has happened
\* since: the call entered the main loop and enqueued its waiter (enq), and
\* (kept for the producer's calls) no other thread has changed the buffer,
\* a shutdown flag or the producer's mode (quiet).
NewCall ==
    [op |-> "none", n |-> 0, res |-> "none", val |-> <<>>,
     e_psd |-> FALSE, e_csd |-> FALSE, enq |-> FALSE, quiet |-> TRUE]

Entered(o, n) ==
    [NewCall EXCEPT !.op = o, !.n = n,
                    !.e_psd = is_producer_shutdown,
                    !.e_csd = is_consumer_shutdown]

Init ==
    /\ capacity \in 0..MaxCapacity
    /\ rb = <<>>
    /\ is_producer_shutdown = FALSE
    /\ is_consumer_shutdown = FALSE
    /\ is_nonblocking = [e \in EndPoints |-> FALSE]
    /\ inner = [e \in EndPoints |-> NoThread]
    /\ waiter_queue = [e \in EndPoints |-> <<>>]
    /\ woken = [t \in Workers |-> FALSE]
    /\ pc = [t \in Threads |-> "idle"]
    /\ at = "P"
    /\ was_shutdown = FALSE
    /\ events = {}
    /\ call = [t \in Workers |-> NewCall]
    /\ pushed = <<>>
    /\ popped = <<>>
    /\ returned = [t \in Workers |-> <<>>]

\* ------------------------------------------------------- action helpers
InCall(t) == pc[t] \notin {"idle", "done"}

\* Another thread changed what the producer's call reads or has written.
Disturbed(c) ==
    IF pc["p"] # "idle" THEN [c EXCEPT !["p"].quiet = FALSE] ELSE c

\* Worker t returns res/val: the mutex guard (if held) and the waiter drop.
Return(t, res, val, q, w) ==
    /\ pc' = [pc EXCEPT ![t] = "done"]
    /\ returned' = [returned EXCEPT ![t] = @ \o val]
    /\ call' = [call EXCEPT ![t].res = res, ![t].val = val]
    /\ inner' = [inner EXCEPT ![EndPoint(t)] = NoThread]
    /\ waiter_queue' = [q EXCEPT ![EndPoint(t)] = WaiterDrop(@, t)]
    /\ woken' = [w EXCEPT ![t] = FALSE]

\* The caller has the result; the thread is free for its next call.
Returned(t) ==
    /\ pc[t] = "done"
    /\ pc' = [pc EXCEPT ![t] = "idle"]
    /\ call' = [call EXCEPT ![t] = NewCall]
    /\ UNCHANGED <<capacity, events, was_shutdown, at, rb, is_producer_shutdown,
                   is_consumer_shutdown,
                   is_nonblocking, inner, waiter_queue, woken, pushed, popped,
                   returned>>

\* Fault variant: each endpoint's observer registered on its own notifier.
ObserverSelf(e) == e

\* The endpoint whose observer Channel::new registers on e's notifier.
Observer(e) == Peer(e)

\* notifier.broadcast of endpoint e: the registered WaiterQueueObserver runs
\* dequeue_and_wake_all on its waiter queue.
QueueAfterBroadcast(e) == [waiter_queue EXCEPT ![Observer(e)] = <<>>]

WokenAfterBroadcast(e) == WokenAfterWake(Observer(e))

\* ------------------------------------------------- waiter_loop! (170-191)
\* Fault variant: the body without its is_nonblocking test.
WouldBlockAlwaysWait(t) ==
    /\ inner' = [inner EXCEPT ![EndPoint(t)] = NoThread]
    /\ pc' = [pc EXCEPT ![t] = IF call[t].enq THEN "wait" ELSE "enq"]
    /\ UNCHANGED <<call, waiter_queue, woken, returned>>

\* Fault variant: the body's guard outlives the body.
WouldBlockHoldingGuard(t) ==
    IF is_nonblocking[EndPoint(t)]
    THEN Return(t, "EAGAIN", <<>>, waiter_queue, woken)
    ELSE /\ pc' = [pc EXCEPT ![t] = IF call[t].enq THEN "wait" ELSE "enq"]
         /\ UNCHANGED <<inner, call, waiter_queue, woken, returned>>

\* if self.is_nonblocking() { EAGAIN }, the last statement of the body; when
\* it falls through, the guard is dropped and the loop enqueues or waits.
WouldBlock(t) ==
    IF is_nonblocking[EndPoint(t)]
    THEN Return(t, "EAGAIN", <<>>, waiter_queue, woken)
    ELSE /\ inner' = [inner EXCEPT ![EndPoint(t)] = NoThread]
         /\ pc' = [pc EXCEPT ![t] = IF call[t].enq THEN "wait" ELSE "enq"]
         /\ UNCHANGED <<call, waiter_queue, woken, returned>>

\* waiter_queue.reset_and_enqueue(&waiter)
Enqueue(t) ==
    /\ pc[t] = "enq"
    /\ waiter_queue' = [waiter_queue EXCEPT ![EndPoint(t)] =
                           reset_and_enqueue(@, t)]
    /\ woken' = [woken EXCEPT ![t] = FALSE]
    /\ call' = [call EXCEPT ![t].enq = TRUE]
    /\ pc' = [pc EXCEPT ![t] = "lock"]
    /\ UNCHANGED <<capacity, events, was_shutdown, at, rb, is_producer_shutdown,
                   is_consumer_shutdown,
                   is_nonblocking, inner, pushed, popped,
                   returned>>

\* waiter.wait(None) returns once the waiter has been woken.
Wait(t) ==
    /\ pc[t] = "wait"
    /\ woken[t]
    /\ pc' = [pc EXCEPT ![t] = "enq"]
    /\ UNCHANGED <<capacity, events, was_shutdown, at, rb, is_producer_shutdown,
                   is_consumer_shutdown,
                   is_nonblocking, inner, waiter_queue, woken, call, pushed,
                   popped,
                   returned>>

\* ------------------------------------------------------ Producer (193-288)
\* Producer::push(item) is called.
PushCall ==
    /\ pc["p"] = "idle"
    /\ Len(pushed) < MaxItems
    /\ call' = [call EXCEPT !["p"] = Entered("push", 1)]
    /\ pc' = [pc EXCEPT !["p"] = "lock"]
    /\ UNCHANGED <<capacity, events, was_shutdown, at, rb, is_producer_shutdown,
                   is_consumer_shutdown,
                   is_nonblocking, inner, waiter_queue, woken, pushed, popped,
                   returned>>

\* Producer::push_slice(items) is called with n items.
PushSliceCall(n) ==
    /\ pc["p"] = "idle"
    /\ Len(pushed) + n <= MaxItems
    /\ call' = [call EXCEPT !["p"] = Entered("push_slice", n)]
    /\ pc' = [pc EXCEPT !["p"] = "lock"]
    /\ UNCHANGED <<capacity, events, was_shutdown, at, rb, is_producer_shutdown,
                   is_consumer_shutdown,
                   is_nonblocking, inner, waiter_queue, woken, pushed, popped,
                   returned>>

\* Fault variant: the peer's flag is not looked at.
PushShutdownCheckSelfOnly == is_self_shutdown("P")

\* The condition of push's and push_slice's EPIPE return.
PushShutdownCheck == is_self_shutdown("P") \/ is_peer_shutdown("P")

\* let mut rb_producer = self.inner.lock().unwrap();
\* if self.is_self_shutdown() || self.is_peer_shutdown() { EPIPE }
ProducerShutdownCheck ==
    /\ pc["p"] = "lock"
    /\ inner["P"] = NoThread
    /\ IF PushShutdownCheck
       THEN Return("p", "EPIPE", <<>>, waiter_queue, woken)
       ELSE /\ pc' = [pc EXCEPT !["p"] = "op"]
            /\ inner' = [inner EXCEPT !["P"] = "p"]
            /\ UNCHANGED <<call, waiter_queue, woken, returned>>
    /\ UNCHANGED <<capacity, events, was_shutdown, at, rb, is_producer_shutdown,
                   is_consumer_shutdown,
                   is_nonblocking, pushed, popped>>

\* Fault variant: the items are written at the head of the buffer.
WrittenInFront(items) ==
    /\ rb' = items \o rb
    /\ pushed' = pushed \o items
    /\ inner' = [inner EXCEPT !["P"] = NoThread]
    /\ call' = [call EXCEPT !["p"].val = items]
    /\ pc' = [pc EXCEPT !["p"] = "bcast"]
    /\ UNCHANGED <<waiter_queue, woken, returned>>

\* The producer wrote items: the guard is dropped, the broadcast is next.
Written(items) ==
    /\ rb' = rb \o items
    /\ pushed' = pushed \o items
    /\ inner' = [inner EXCEPT !["P"] = NoThread]
    /\ call' = [call EXCEPT !["p"].val = items]
    /\ pc' = [pc EXCEPT !["p"] = "bcast"]
    /\ UNCHANGED <<waiter_queue, woken, returned>>

\* item = match rb_producer.push(item) { Ok(()) => ..., Err(item) => item };
\* if self.is_nonblocking() { EAGAIN }
PushOp ==
    /\ pc["p"] = "op"
    /\ call["p"].op = "push"
    /\ IF ~RbIsFull
       THEN Written(NextItems(1))
       ELSE WouldBlock("p") /\ UNCHANGED <<rb, pushed>>
    /\ UNCHANGED <<capacity, events, was_shutdown, at, is_producer_shutdown,
                   is_consumer_shutdown,
                   is_nonblocking, popped>>

\* Fault variant: a count of 0 is returned as Ok(0).
PushSliceOpZeroOk ==
    /\ pc["p"] = "op"
    /\ call["p"].op = "push_slice"
    /\ Written(NextItems(RbPushCount(call["p"].n)))
    /\ UNCHANGED <<capacity, events, was_shutdown, at, is_producer_shutdown,
                   is_consumer_shutdown,
                   is_nonblocking, popped>>

\* let count = rb_producer.push_slice(items); if count > 0 { ... }
\* if self.is_nonblocking() { EAGAIN }
PushSliceOp ==
    /\ pc["p"] = "op"
    /\ call["p"].op = "push_slice"
    /\ LET count == RbPushCount(call["p"].n) IN
       IF count > 0
       THEN Written(NextItems(count))
       ELSE WouldBlock("p") /\ UNCHANGED <<rb, pushed>>
    /\ UNCHANGED <<capacity, events, was_shutdown, at, is_producer_shutdown,
                   is_consumer_shutdown,
                   is_nonblocking, popped>>

\* self.notifier.broadcast(&IoEvents::IN); return Ok(..)
ProducerBroadcast ==
    /\ pc["p"] = "bcast"
    /\ Return("p", "Ok", call["p"].val,
              QueueAfterBroadcast("P"), WokenAfterBroadcast("P"))
    /\ UNCHANGED <<capacity, events, was_shutdown, at, rb, is_producer_shutdown,
                   is_consumer_shutdown,
                   is_nonblocking, pushed, popped>>

\* ------------------------------------------------------ Consumer (290-388)
\* Consumer::pop() is called.
PopCall ==
    /\ pc["c"] = "idle"
    /\ call' = [call EXCEPT !["c"] = Entered("pop", 1)]
    /\ pc' = [pc EXCEPT !["c"] = "lock"]
    /\ UNCHANGED <<capacity, events, was_shutdown, at, rb, is_producer_shutdown,
                   is_consumer_shutdown,
                   is_nonblocking, inner, waiter_queue, woken, pushed, popped,
                   returned>>

\* Consumer::pop_slice(items) is called with a buffer of n items.
PopSliceCall(n) ==
    /\ pc["c"] = "idle"
    /\ call' = [call EXCEPT !["c"] = Entered("pop_slice", n)]
    /\ pc' = [pc EXCEPT !["c"] = "lock"]
    /\ UNCHANGED <<capacity, events, was_shutdown, at, rb, is_producer_shutdown,
                   is_consumer_shutdown,
                   is_nonblocking, inner, waiter_queue, woken, pushed, popped,
                   returned>>

\* Fault variant: EPIPE only once both endpoints are shut down.
PopShutdownCheckBoth == is_self_shutdown("C") /\ is_peer_shutdown("C")

\* The condition of pop's and pop_slice's EPIPE return.
PopShutdownCheck == is_self_shutdown("C")

\* The consumer took count items: the guard is dropped, the broadcast is next.
Taken(count) ==
    /\ rb' = Drop(rb, count)
    /\ popped' = popped \o Take(rb, count)
    /\ inner' = [inner EXCEPT !["C"] = NoThread]
    /\ call' = Disturbed([call EXCEPT !["c"].val = Take(rb, count)])
    /\ pc' = [pc EXCEPT !["c"] = "bcast"]
    /\ UNCHANGED <<waiter_queue, woken, returned>>

\* Fault variant: the peer's shutdown is looked at before the buffer.
PopCountPeerFirst ==
    IF is_peer_shutdown("C") THEN 0
    ELSE IF call["c"].op = "pop" THEN RbPopCount(1)
    ELSE RbPopCount(call["c"].n)

\* rb_consumer.pop(): one item if there is one; rb_consumer.pop_slice(items):
\* as many as the buffer of n takes.
PopCount ==
    IF call["c"].op = "pop" THEN RbPopCount(1) ELSE RbPopCount(call["c"].n)

\* let mut rb_consumer = self.inner.lock().unwrap();
\* if self.is_self_shutdown() { EPIPE }
\* if let Some(item) = rb_consumer.pop() { ... }   (pop)
\* let count = rb_consumer.pop_slice(items); if count > 0 { ... }  (pop_slice)
ConsumerOp ==
    /\ pc["c"] = "lock"
    /\ inner["C"] = NoThread
    /\ IF PopShutdownCheck
       THEN Return("c", "EPIPE", <<>>, waiter_queue, woken)
               /\ UNCHANGED <<rb, popped>>
       ELSE IF PopCount > 0
       THEN Taken(PopCount)
       ELSE /\ pc' = [pc EXCEPT !["c"] = "peer"]
            /\ inner' = [inner EXCEPT !["C"] = "c"]
            /\ UNCHANGED <<rb, popped, call, waiter_queue, woken, returned>>
    /\ UNCHANGED <<capacity, events, was_shutdown, at, is_producer_shutdown,
                   is_consumer_shutdown,
                   is_nonblocking, pushed>>

\* Fault variant: the two tests in the other order.
ConsumerPeerCheckModeFirst ==
    /\ pc["c"] = "peer"
    /\ IF is_nonblocking["C"]
       THEN Return("c", "EAGAIN", <<>>, waiter_queue, woken)
       ELSE IF is_peer_shutdown("C")
       THEN Return("c", IF call["c"].op = "pop" THEN "None" ELSE "Ok", <<>>,
                   waiter_queue, woken)
       ELSE WouldBlock("c")
    /\ UNCHANGED <<capacity, events, was_shutdown, at, rb, is_producer_shutdown,
                   is_consumer_shutdown,
                   is_nonblocking, pushed, popped>>

\* if self.is_peer_shutdown() { return Ok(None) }   (Ok(0) for pop_slice)
\* if self.is_nonblocking() { EAGAIN }
ConsumerPeerCheck ==
    /\ pc["c"] = "peer"
    /\ IF is_peer_shutdown("C")
       THEN Return("c", IF call["c"].op = "pop" THEN "None" ELSE "Ok", <<>>,
                   waiter_queue, woken)
       ELSE WouldBlock("c")
    /\ UNCHANGED <<capacity, events, was_shutdown, at, rb, is_producer_shutdown,
                   is_consumer_shutdown,
                   is_nonblocking, pushed, popped>>

\* Fault variant: the consumer returns its items without the broadcast.
ConsumerBroadcastSilent ==
    /\ pc["c"] = "bcast"
    /\ Return("c", IF call["c"].op = "pop" THEN "Some" ELSE "Ok",
              call["c"].val, waiter_queue, woken)
    /\ UNCHANGED <<capacity, events, was_shutdown, at, rb, is_producer_shutdown,
                   is_consumer_shutdown,
                   is_nonblocking, pushed, popped>>

\* self.notifier.broadcast(&IoEvents::OUT); return Ok(Some(item)) / Ok(count)
ConsumerBroadcast ==
    /\ pc["c"] = "bcast"
    /\ Return("c", IF call["c"].op = "pop" THEN "Some" ELSE "Ok",
              call["c"].val,
              QueueAfterBroadcast("C"), WokenAfterBroadcast("C"))
    /\ UNCHANGED <<capacity, events, was_shutdown, at, rb, is_producer_shutdown,
                   is_consumer_shutdown,
                   is_nonblocking, pushed, popped>>

\* ----------------------------------------- shutdown (243-254, 340-351)
\* Fault variant: shutdown returns at once if the endpoint is shut down.
ShutdownSetOnce(e) ==
    /\ pc["a"] = "idle"
    /\ inner[e] = NoThread
    /\ is_producer_shutdown' = (is_producer_shutdown \/ e = "P")
    /\ is_consumer_shutdown' = (is_consumer_shutdown \/ e = "C")
    /\ call' = IF is_self_shutdown(e) THEN call
               ELSE Disturbed(call)
    /\ pc' = [pc EXCEPT !["a"] =
                 IF is_self_shutdown(e) THEN "idle" ELSE "sd_bcast"]
    /\ at' = e
    /\ was_shutdown' = is_self_shutdown(e)
    /\ UNCHANGED <<capacity, events, rb, is_nonblocking, inner, waiter_queue,
                   woken,
                   pushed, popped, returned>>

\* Fault variant: the shutdown of either endpoint sets both flags.
ShutdownSetBoth(e) ==
    /\ pc["a"] = "idle"
    /\ inner[e] = NoThread
    /\ is_producer_shutdown' = TRUE
    /\ is_consumer_shutdown' = TRUE
    /\ call' = Disturbed(call)
    /\ pc' = [pc EXCEPT !["a"] = "sd_bcast"]
    /\ at' = e
    /\ was_shutdown' = is_self_shutdown(e)
    /\ UNCHANGED <<capacity, events, rb, is_nonblocking, inner, waiter_queue,
                   woken,
                   pushed, popped, returned>>

\* Fault variant: the flag is set without the endpoint's buffer lock.
ShutdownSetUnlocked(e) ==
    /\ pc["a"] = "idle"
    /\ is_producer_shutdown' = (is_producer_shutdown \/ e = "P")
    /\ is_consumer_shutdown' = (is_consumer_shutdown \/ e = "C")
    /\ call' = IF is_self_shutdown(e) THEN call
               ELSE Disturbed(call)
    /\ pc' = [pc EXCEPT !["a"] = "sd_bcast"]
    /\ at' = e
    /\ was_shutdown' = is_self_shutdown(e)
    /\ UNCHANGED <<capacity, events, rb, is_nonblocking, inner, waiter_queue,
                   woken,
                   pushed, popped, returned>>

\* { let inner = self.inner.lock().unwrap();
\*   self.state.set_producer_shutdown(); }     (set_consumer_shutdown)
ShutdownSet(e) ==
    /\ pc["a"] = "idle"
    /\ inner[e] = NoThread
    /\ is_producer_shutdown' = (is_producer_shutdown \/ e = "P")
    /\ is_consumer_shutdown' = (is_consumer_shutdown \/ e = "C")
    /\ call' = IF is_self_shutdown(e) THEN call
               ELSE Disturbed(call)
    /\ pc' = [pc EXCEPT !["a"] = "sd_bcast"]
    /\ at' = e
    /\ was_shutdown' = is_self_shutdown(e)
    /\ UNCHANGED <<capacity, events, rb, is_nonblocking, inner, waiter_queue,
                   woken,
                   pushed, popped, returned>>

\* Fault variant: shutdown without the broadcast to the peer's observer.
ShutdownBroadcastNone ==
    /\ pc["a"] = "sd_bcast"
    /\ pc' = [pc EXCEPT !["a"] = "sd_wake"]
    /\ UNCHANGED <<capacity, events, was_shutdown, rb, is_producer_shutdown,
                   is_consumer_shutdown,
                   is_nonblocking, inner, at, call, pushed, popped,
                   returned, waiter_queue, woken>>

\* self.notifier.broadcast(&IoEvents::HUP) / (&IoEvents::RDHUP)
ShutdownBroadcast ==
    /\ pc["a"] = "sd_bcast"
    /\ waiter_queue' = QueueAfterBroadcast(at)
    /\ woken' = WokenAfterBroadcast(at)
    /\ pc' = [pc EXCEPT !["a"] = "sd_wake"]
    /\ UNCHANGED <<capacity, events, was_shutdown, rb, is_producer_shutdown,
                   is_consumer_shutdown,
                   is_nonblocking, inner, at, call, pushed, popped,
                   returned>>

\* self.observer.waiter_queue().dequeue_and_wake_all()
DequeueAndWakeAll ==
    /\ waiter_queue' = [waiter_queue EXCEPT ![at] = <<>>]
    /\ woken' = WokenAfterWake(at)
    /\ pc' = [pc EXCEPT !["a"] = "idle"]
    /\ at' = "P"
    /\ was_shutdown' = FALSE
    /\ UNCHANGED <<capacity, events, rb, is_producer_shutdown,
                   is_consumer_shutdown,
                   is_nonblocking, inner, call, pushed, popped, returned>>

ShutdownWake ==
    /\ pc["a"] = "sd_wake"
    /\ DequeueAndWakeAll

\* ------------------------------------------- set_nonblocking (126-133)
\* Fault variant: the flag is stored and nobody is woken.
SetNonblockingStoreOnly(e, nonblocking) ==
    /\ pc["a"] = "idle"
    /\ is_nonblocking' = [is_nonblocking EXCEPT ![e] = nonblocking]
    /\ call' = IF is_nonblocking[e] = nonblocking \/ e = "C" THEN call
               ELSE Disturbed(call)
    /\ UNCHANGED <<capacity, events, was_shutdown, rb, is_producer_shutdown,
                   is_consumer_shutdown,
                   inner, waiter_queue, woken, pushed, popped, returned,
                   pc, at>>

\* self.is_nonblocking.store(nonblocking, Release); if nonblocking { ... }
SetNonblocking(e, nonblocking) ==
    /\ pc["a"] = "idle"
    /\ is_nonblocking' = [is_nonblocking EXCEPT ![e] = nonblocking]
    /\ call' = IF is_nonblocking[e] = nonblocking \/ e = "C" THEN call
               ELSE Disturbed(call)
    /\ pc' = [pc EXCEPT !["a"] = IF nonblocking THEN "nb_wake" ELSE "idle"]
    /\ at' = IF nonblocking THEN e ELSE "P"
    /\ UNCHANGED <<capacity, events, was_shutdown, rb, is_producer_shutdown,
                   is_consumer_shutdown,
                   inner, waiter_queue, woken, pushed, popped, returned>>

SetNonblockingWake ==
    /\ pc["a"] = "nb_wake"
    /\ DequeueAndWakeAll

\* ------------------------------------------------- poll (222-241, 319-338)
\* Fault variant: the consumer's bits on the producer's side.
ProducerPollEventsSwapped ==
    (IF ~RbIsFull THEN {"OUT"} ELSE {})
        \cup (IF is_self_shutdown("P") THEN {"RDHUP"} ELSE {})
        \cup (IF is_peer_shutdown("P") THEN {"HUP"} ELSE {})

\* Producer::poll: OUT if !rb_producer.is_full(), HUP if is_self_shutdown(),
\* RDHUP if is_peer_shutdown().
ProducerPollEvents ==
    (IF ~RbIsFull THEN {"OUT"} ELSE {})
        \cup (IF is_self_shutdown("P") THEN {"HUP"} ELSE {})
        \cup (IF is_peer_shutdown("P") THEN {"RDHUP"} ELSE {})

\* Consumer::poll: IN if !rb_consumer.is_empty(), RDHUP if
\* is_self_shutdown(), HUP if is_peer_shutdown().
ConsumerPollEvents ==
    (IF ~RbIsEmpty THEN {"IN"} ELSE {})
        \cup (IF is_self_shutdown("C") THEN {"RDHUP"} ELSE {})
        \cup (IF is_peer_shutdown("C") THEN {"HUP"} ELSE {})

\* poll() of endpoint e, which takes the buffer lock to look at the buffer.
Poll(e) ==
    /\ pc["a"] = "idle"
    /\ inner[e] = NoThread
    /\ events' = IF e = "P" THEN ProducerPollEvents ELSE ConsumerPollEvents
    /\ pc' = [pc EXCEPT !["a"] = "polled"]
    /\ at' = e
    /\ UNCHANGED <<capacity, was_shutdown, rb, is_producer_shutdown,
                   is_consumer_shutdown, is_nonblocking, inner, waiter_queue,
                   woken, call, pushed, popped, returned>>

\* The caller has the events.
PollReturned ==
    /\ pc["a"] = "polled"
    /\ events' = {}
    /\ pc' = [pc EXCEPT !["a"] = "idle"]
    /\ at' = "P"
    /\ UNCHANGED <<capacity, was_shutdown, rb, is_producer_shutdown,
                   is_consumer_shutdown, is_nonblocking, inner, waiter_queue,
                   woken, call, pushed, popped, returned>>

\* ------------------------------------------------------------------ Next
Next ==
    \/ \E t \in Workers : Returned(t)
    \/ PushCall
    \/ \E n \in 0..MaxSlice : PushSliceCall(n)
    \/ PopCall
    \/ \E n \in 0..MaxSlice : PopSliceCall(n)
    \/ \E e \in EndPoints : ShutdownSet(e)
    \/ \E e \in EndPoints, b \in BOOLEAN : SetNonblocking(e, b)
    \/ \E t \in Workers : Enqueue(t)
    \/ \E t \in Workers : Wait(t)
    \/ ProducerShutdownCheck
    \/ PushOp
    \/ PushSliceOp
    \/ ProducerBroadcast
    \/ ConsumerOp
    \/ ConsumerPeerCheck
    \/ ConsumerBroadcast
    \/ ShutdownBroadcast
    \/ ShutdownWake
    \/ SetNonblockingWake

Spec == Init /\ [][Next]_vars

\* The single-item operations, for the progress properties.
NextLive ==
    \/ \E t \in Workers : Returned(t)
    \/ PushCall
    \/ PopCall
    \/ \E e \in EndPoints : ShutdownSet(e)
    \/ \E e \in EndPoints, b \in BOOLEAN : SetNonblocking(e, b)
    \/ \E t \in Workers : Enqueue(t)
    \/ \E t \in Workers : Wait(t)
    \/ ProducerShutdownCheck
    \/ PushOp
    \/ ProducerBroadcast
    \/ ConsumerOp
    \/ ConsumerPeerCheck
    \/ ConsumerBroadcast
    \/ ShutdownBroadcast
    \/ ShutdownWake
    \/ SetNonblockingWake

\* Fair scheduling: a thread inside a call takes its next step if that step
\* stays possible (a parked thread's next step is possible once it is
\* woken), and a shutdown or set_nonblocking that has set its flag goes on to
\* its wake-ups.  Whether and when a call is made is left open.
Fairness ==
    /\ \A t \in Workers : WF_vars(Enqueue(t))
    /\ \A t \in Workers : WF_vars(Wait(t))
    /\ WF_vars(ProducerShutdownCheck)
    /\ WF_vars(PushOp)
    /\ WF_vars(ProducerBroadcast)
    /\ WF_vars(ConsumerOp)
    /\ WF_vars(ConsumerPeerCheck)
    /\ WF_vars(ConsumerBroadcast)
    /\ WF_vars(ShutdownBroadcast)
    /\ WF_vars(ShutdownWake)
    /\ WF_vars(SetNonblockingWake)

LiveSpec == Init /\ [][NextLive]_vars /\ Fairness

\* The single-item operations together with poll.
NextPoll ==
    \/ NextLive
    \/ \E e \in EndPoints : Poll(e)
    \/ PollReturned

PollSpec == Init /\ [][NextPoll]_vars

TypeOK ==
    /\ capacity \in 0..MaxCapacity
    /\ is_producer_shutdown \in BOOLEAN
    /\ is_consumer_shutdown \in BOOLEAN
    /\ is_nonblocking \in [EndPoints -> BOOLEAN]
    /\ inner \in [EndPoints -> Threads \cup {NoThread}]
    /\ woken \in [Workers -> BOOLEAN]
    /\ at \in EndPoints
    /\ was_shutdown \in BOOLEAN
    /\ events \subseteq {"IN", "OUT", "HUP", "RDHUP"}

Done(t) == pc[t] = "done"

\* ------------------------------------------------------------------ C1
\* C1 as stated: with no consumer shutdown, at all times the items that pop
\* (pop_slice) has returned are a prefix of the items whose push (push_slice)
\* has returned Ok.
C1_ReturnedPrefixOfAcked ==
    ~is_consumer_shutdown => IsPrefix(returned["c"], returned["p"])

\* C1, amended: at all times the items returned by pop are a prefix of the
\* items push has written to the buffer, the items whose push returned Ok
\* are a prefix of them too, and the buffer holds exactly the written items
\* not yet taken, in the order they were pushed (FIFO, no loss, no
\* duplication).
C1_Fifo ==
    /\ IsPrefix(returned["c"], pushed)
    /\ IsPrefix(returned["p"], pushed)
    /\ popped \o rb = pushed
    /\ IsPrefix(returned["c"], popped)

\* Two items have been pushed and both have been popped, in that order.
C1_Witness ==
    /\ Done("c")
    /\ call["c"].op = "pop"
    /\ call["c"].res = "Some"
    /\ returned["c"] = <<1, 2>>
    /\ returned["p"] = <<1, 2>>
    /\ ~is_producer_shutdown

\* ------------------------------------------------------------------ C2
\* C2: in every reachable state the number of buffered items is between 0
\* and the capacity given to Channel::new.
C2_Bounded == Len(rb) >= 0 /\ Len(rb) <= capacity

\* A push_slice that had more items than free slots left the buffer full.
C2_Witness ==
    /\ Done("p")
    /\ call["p"].op = "push_slice"
    /\ Len(call["p"].val) >= 1
    /\ Len(call["p"].val) < call["p"].n
    /\ Len(rb) = capacity

\* ------------------------------------------------------------------ C3
\* The buffer as it was when the producer's call was made, provided the call
\* is quiet: what the buffer holds without the items the call has written.
EntryRb == SubSeq(rb, 1, Len(rb) - Len(call["p"].val))

\* C3: a push made in non-blocking mode with neither endpoint shut down,
\* which no pop, shutdown or mode change interleaves with, never enqueues a
\* waiter and never waits; it returns EAGAIN and leaves the buffer as it was
\* if the buffer was full (capacity items), and returns Ok with its item
\* appended if the buffer had a free slot (as after one pop).
C3_NonblockingPush ==
    (/\ pc["p"] # "idle"
     /\ call["p"].op = "push"
     /\ call["p"].quiet
     /\ is_nonblocking["P"]
     /\ ~is_producer_shutdown
     /\ ~is_consumer_shutdown)
    => /\ ~call["p"].enq
       /\ pc["p"] \in {"lock", "op", "bcast", "done"}
       /\ Done("p") =>
            IF Len(EntryRb) = capacity
            THEN /\ call["p"].res = "EAGAIN"
                 /\ call["p"].val = <<>>
            ELSE /\ call["p"].res = "Ok"
                 /\ Len(call["p"].val) = 1
                 /\ Len(rb) <= capacity

\* The (C+1)th push on a channel of capacity C > 0 got EAGAIN.
C3_Witness ==
    /\ Done("p")
    /\ call["p"].op = "push"
    /\ call["p"].quiet
    /\ is_nonblocking["P"]
    /\ ~is_producer_shutdown
    /\ ~is_consumer_shutdown
    /\ capacity > 0
    /\ Len(rb) = capacity
    /\ popped = <<>>
    /\ call["p"].res = "EAGAIN"

\* ------------------------------------------------------------------ C4
\* C4: a push or push_slice made when a shutdown flag is set performs the
\* shutdown check once and returns EPIPE: it never enqueues a waiter, never
\* waits, and writes no item.
C4_PushAfterShutdown ==
    (pc["p"] # "idle" /\ (call["p"].e_psd \/ call["p"].e_csd))
    => /\ ~call["p"].enq
       /\ call["p"].val = <<>>
       /\ \/ pc["p"] = "lock"
          \/ Done("p") /\ call["p"].res = "EPIPE"

\* A blocking push with free capacity failed because the consumer was shut
\* down.
C4_Witness ==
    /\ Done("p")
    /\ call["p"].e_csd
    /\ ~is_producer_shutdown
    /\ ~is_nonblocking["P"]
    /\ call["p"].quiet
    /\ Len(rb) < capacity
    /\ call["p"].res = "EPIPE"

\* ------------------------------------------------------------------ C5
\* Once the producer's shutdown flag is set no push is past its shutdown
\* check, so nothing is written any more: the buffer a consumer's call found
\* is what it has taken (val) followed by what is left (rb).
C5_Frozen == is_producer_shutdown => pc["p"] # "op"

\* C5: a pop made after the producer's shutdown flag is set, on a consumer
\* that is not shut down, returns the oldest buffered item if the buffer
\* holds items, leaving the others in place, and returns Ok(None) if it is
\* empty; so N buffered items are popped in FIFO order and every later pop
\* returns Ok(None).
C5_HalfClose ==
    /\ C5_Frozen
    /\ (/\ Done("c")
        /\ call["c"].op = "pop"
        /\ call["c"].e_psd
        /\ ~call["c"].e_csd)
       => \/ call["c"].res = "EPIPE" /\ is_consumer_shutdown
          \/ IF call["c"].val \o rb # <<>>
             THEN /\ call["c"].res = "Some"
                  /\ call["c"].val = <<pushed[Len(popped)]>>
                  /\ popped \o rb = pushed
             ELSE call["c"].res = "None"

\* The second of two buffered items was popped after the producer's shutdown.
C5_Witness ==
    /\ Done("c")
    /\ call["c"].op = "pop"
    /\ call["c"].e_psd
    /\ call["c"].res = "Some"
    /\ call["c"].val = <<2>>
    /\ returned["c"] = <<1, 2>>
    /\ returned["p"] = <<1, 2>>
    /\ rb = <<>>

\* ------------------------------------------------------------------ C6
\* C6: a pop or pop_slice made on an empty buffer after the producer's
\* shutdown flag is set, on a consumer that is not shut down, returns
\* Ok(None) (Ok(0)) without enqueuing a waiter or waiting, in blocking and in
\* non-blocking mode: never EAGAIN.
C6_EndOfStream ==
    (/\ pc["c"] # "idle"
     /\ call["c"].e_psd
     /\ ~call["c"].e_csd
     /\ call["c"].val \o rb = <<>>)
    => /\ ~call["c"].enq
       /\ \/ pc["c"] \in {"lock", "peer"}
          \/ Done("c") /\ call["c"].res = "EPIPE" /\ is_consumer_shutdown
          \/ Done("c") /\ call["c"].res =
                             (IF call["c"].op = "pop" THEN "None" ELSE "Ok")

\* A non-blocking pop got Ok(None) although no item was ever pushed.
C6_Witness ==
    /\ Done("c")
    /\ call["c"].op = "pop"
    /\ call["c"].e_psd
    /\ call["c"].res = "None"
    /\ is_nonblocking["C"]
    /\ pushed = <<>>

\* ------------------------------------------------------------------ C7
\* C7: a pop or pop_slice made when the consumer's shutdown flag is set
\* returns EPIPE and takes no item, whatever the buffer holds and whether or
\* not the producer is shut down.
C7_PopAfterShutdown ==
    (pc["c"] # "idle" /\ call["c"].e_csd)
    => /\ ~call["c"].enq
       /\ call["c"].val = <<>>
       /\ \/ pc["c"] = "lock"
          \/ Done("c") /\ call["c"].res = "EPIPE"

\* A pop failed with EPIPE while items were buffered and the producer open.
C7_Witness ==
    /\ Done("c")
    /\ call["c"].e_csd
    /\ rb # <<>>
    /\ ~is_producer_shutdown
    /\ call["c"].res = "EPIPE"

\* ------------------------------------------------------------------ C8
\* C8: under fair scheduling a pop that is in progress while the buffer
\* holds an item returns, and returns an item (Ok(Some)) unless an endpoint
\* has been shut down or the consumer switched to non-blocking mode: a
\* blocking pop on an open channel never stays parked on a buffered item,
\* wherever the push lands in the pop's enqueue, re-check and wait.
C8_NoLostWakeup ==
    (InCall("c") /\ call["c"].op = "pop" /\ rb # <<>>)
    ~> (/\ Done("c")
        /\ \/ call["c"].res = "Some"
           \/ is_producer_shutdown
           \/ is_consumer_shutdown
           \/ is_nonblocking["C"])

\* The consumer is parked, not yet woken, and the push has written its item.
C8_Witness ==
    /\ pc["c"] = "wait"
    /\ ~woken["c"]
    /\ call["c"].op = "pop"
    /\ rb # <<>>
    /\ ~is_producer_shutdown
    /\ ~is_consumer_shutdown
    /\ ~is_nonblocking["C"]

\* ------------------------------------------------------------------ C9
\* A call that is parked, or on its way to or from the wait: its next look
\* at the channel starts at the top of the loop body.
Blocked(t) == pc[t] \in {"lock", "enq", "wait"}

\* C9: under fair scheduling, a blocked push returns EPIPE once a shutdown
\* flag of either endpoint is set; a blocked pop returns EPIPE once the
\* consumer's flag is set, and returns Ok(None) once the producer's flag is
\* set and the buffer is empty (EPIPE if the consumer is shut down as well).
C9_ShutdownWakes ==
    /\ (Blocked("p") /\ (is_producer_shutdown \/ is_consumer_shutdown))
       ~> (Done("p") /\ call["p"].res = "EPIPE")
    /\ (Blocked("c") /\ is_consumer_shutdown)
       ~> (Done("c") /\ call["c"].res = "EPIPE")
    /\ (Blocked("c") /\ is_producer_shutdown /\ rb = <<>>)
       ~> (Done("c") /\ \/ call["c"].res = "None"
                        \/ call["c"].res = "EPIPE" /\ is_consumer_shutdown)

\* A push is parked on a full buffer, not yet woken, and the consumer's flag
\* has just been set.
C9_Witness ==
    /\ pc["p"] = "wait"
    /\ ~woken["p"]
    /\ is_consumer_shutdown
    /\ ~is_producer_shutdown
    /\ ~is_nonblocking["P"]
    /\ pc["a"] = "sd_bcast"

\* ----------------------------------------------------------------- C10
\* C10: under fair scheduling, a push (pop) in progress while its endpoint
\* is in non-blocking mode returns unless the mode is switched back: with
\* EAGAIN or with success, or with the result of a shutdown.
C10_NonblockingCancels ==
    /\ (InCall("p") /\ is_nonblocking["P"])
       ~> \/ ~is_nonblocking["P"]
          \/ /\ Done("p")
             /\ \/ call["p"].res \in {"EAGAIN", "Ok"}
                \/ is_producer_shutdown
                \/ is_consumer_shutdown
    /\ (InCall("c") /\ is_nonblocking["C"])
       ~> \/ ~is_nonblocking["C"]
          \/ /\ Done("c")
             /\ \/ call["c"].res \in {"EAGAIN", "Some"}
                \/ is_producer_shutdown
                \/ is_consumer_shutdown

\* A push is parked on a full buffer, not yet woken, and set_nonblocking(true)
\* has stored the flag.
C10_Witness ==
    /\ pc["p"] = "wait"
    /\ ~woken["p"]
    /\ is_nonblocking["P"]
    /\ RbIsFull
    /\ pc["a"] = "nb_wake"
    /\ at = "P"
    /\ ~is_producer_shutdown
    /\ ~is_consumer_shutdown

\* ----------------------------------------------------------------- C11
\* The step in which shutdown() of endpoint e sets its flag.
ShutdownStep(e) == pc["a"] = "idle" /\ pc'["a"] = "sd_bcast" /\ at' = e

\* C11: both flags are false on a new channel; a flag that is true stays
\* true in every step of every call; a flag changes only in a shutdown's
\* step, and the producer's shutdown sets the producer's flag and leaves the
\* consumer's as it is, the consumer's shutdown the other way round.
C11_ShutdownMonotonic ==
    /\ ~is_producer_shutdown /\ ~is_consumer_shutdown
    /\ [][/\ is_producer_shutdown => is_producer_shutdown'
          /\ is_consumer_shutdown => is_consumer_shutdown'
          /\ is_producer_shutdown' # is_producer_shutdown => ShutdownStep("P")
          /\ is_consumer_shutdown' # is_consumer_shutdown => ShutdownStep("C")
          /\ ShutdownStep("P") =>
                /\ is_producer_shutdown'
                /\ is_consumer_shutdown' = is_consumer_shutdown
          /\ ShutdownStep("C") =>
                /\ is_consumer_shutdown'
                /\ is_producer_shutdown' = is_producer_shutdown]_vars

\* The producer is shut down, the consumer is not, and a pop made after the
\* shutdown completed has taken an item.
C11_Witness ==
    /\ is_producer_shutdown
    /\ ~is_consumer_shutdown
    /\ pc["a"] = "idle"
    /\ pc["c"] = "bcast"
    /\ call["c"].e_psd

\* ----------------------------------------------------------------- C12
\* The threads in the waiter queue of endpoint e.
InQueue(e) == {waiter_queue[e][i] : i \in 1..Len(waiter_queue[e])}

\* C12: a shutdown() of an endpoint that is already shut down goes through
\* the same steps as the first one (no error): its first step leaves both
\* flags and the buffer as they were, its broadcast wakes and empties the
\* peer's waiter queue, its last step wakes and empties the endpoint's own
\* waiter queue, neither changing flags or buffer; and under fair
\* scheduling the call completes.
C12_ShutdownIdempotent ==
    /\ [][(pc["a"] = "idle" /\ was_shutdown') =>
             /\ pc'["a"] = "sd_bcast"
             /\ is_self_shutdown(at')
             /\ is_producer_shutdown' = is_producer_shutdown
             /\ is_consumer_shutdown' = is_consumer_shutdown
             /\ rb' = rb]_vars
    /\ [][(was_shutdown /\ pc["a"] = "sd_bcast" /\ pc'["a"] # "sd_bcast") =>
             /\ pc'["a"] = "sd_wake"
             /\ waiter_queue'[Peer(at)] = <<>>
             /\ \A t \in InQueue(Peer(at)) : woken'[t]
             /\ is_producer_shutdown' = is_producer_shutdown
             /\ is_consumer_shutdown' = is_consumer_shutdown
             /\ rb' = rb]_vars
    /\ [][(was_shutdown /\ pc["a"] = "sd_wake" /\ pc'["a"] # "sd_wake") =>
             /\ pc'["a"] = "idle"
             /\ waiter_queue'[at] = <<>>
             /\ \A t \in InQueue(at) : woken'[t]
             /\ is_producer_shutdown' = is_producer_shutdown
             /\ is_consumer_shutdown' = is_consumer_shutdown
             /\ rb' = rb]_vars
    /\ was_shutdown ~> ~was_shutdown

\* A second shutdown() of the consumer, with an item buffered, is about to
\* wake the consumer's own waiter queue.
C12_Witness ==
    /\ was_shutdown
    /\ pc["a"] = "sd_wake"
    /\ at = "C"
    /\ rb # <<>>

\* ----------------------------------------------------------------- C13
\* C13: poll() leaves every part of the channel as it is, and its result is
\* a function of the buffer occupancy and the two flags: the producer's
\* holds OUT iff the buffer is not full, HUP iff the producer is shut down,
\* RDHUP iff the consumer is shut down; the consumer's holds IN iff the
\* buffer is not empty, RDHUP iff the consumer is shut down, HUP iff the
\* producer is shut down; no other bit is set.
C13_Poll ==
    [][(pc["a"] = "idle" /\ pc'["a"] = "polled") =>
          /\ UNCHANGED <<capacity, rb, is_producer_shutdown,
                         is_consumer_shutdown, is_nonblocking, inner,
                         waiter_queue, woken, pushed, popped>>
          /\ at' = "P" =>
                /\ events' \subseteq {"OUT", "HUP", "RDHUP"}
                /\ "OUT" \in events' <=> Len(rb) < capacity
                /\ "HUP" \in events' <=> is_producer_shutdown
                /\ "RDHUP" \in events' <=> is_consumer_shutdown
          /\ at' = "C" =>
                /\ events' \subseteq {"IN", "HUP", "RDHUP"}
                /\ "IN" \in events' <=> Len(rb) > 0
                /\ "RDHUP" \in events' <=> is_consumer_shutdown
                /\ "HUP" \in events' <=> is_producer_shutdown]_vars

\* The producer's poll() on a full buffer, of capacity 1 or more, after the
\* consumer's shutdown: RDHUP alone.
C13_Witness ==
    /\ pc["a"] = "polled"
    /\ at = "P"
    /\ events = {"RDHUP"}
    /\ capacity > 0
    /\ Len(rb) = capacity

\* ----------------------------------------------------------------- C14
\* C14 as stated: whenever pop returns Ok(None) the buffer is empty at that
\* moment, and every item whose push has returned Ok has been returned by a
\* pop.
C14_NoneOnlyWhenEmpty ==
    [][(/\ pc["c"] = "peer"
        /\ pc'["c"] = "done"
        /\ call'["c"].op = "pop"
        /\ call'["c"].res = "None")
       => /\ rb' = <<>>
          /\ IsPrefix(returned'["p"], popped')]_vars

\* ----------------------------------------------------------------- C15
\* C15: under fair scheduling a push that is in progress while the buffer
\* has free space returns, and returns Ok(()) with its item written unless an
\* endpoint has been shut down or the producer switched to non-blocking
\* mode: a blocking push on an open channel never stays parked on free
\* space, wherever the pop lands in the push's enqueue, re-check and wait.
C15_NoLostWakeupOnWrite ==
    (InCall("p") /\ call["p"].op = "push" /\ Len(rb) < capacity)
    ~> (/\ Done("p")
        /\ \/ /\ call["p"].res = "Ok"
              /\ pushed # <<>>
              /\ call["p"].val = <<pushed[Len(pushed)]>>
           \/ is_producer_shutdown
           \/ is_consumer_shutdown
           \/ is_nonblocking["P"])

\* The producer is parked, not yet woken, and the pop has taken an item out
\* of the full buffer.
C15_Witness ==
    /\ pc["p"] = "wait"
    /\ ~woken["p"]
    /\ call["p"].op = "push"
    /\ popped # <<>>
    /\ Len(rb) < capacity
    /\ ~is_producer_shutdown
    /\ ~is_consumer_shutdown
    /\ ~is_nonblocking["P"]

\* ----------------------------------------------------------------- C16
\* C16: a thread that is parked in waiter.wait, or is about to enqueue its
\* waiter, or is at a notifier broadcast or a dequeue_and_wake_all (of a
\* push, a pop, a slice operation, a shutdown or a set_nonblocking) holds
\* the buffer mutex of neither endpoint; a mutex is held only inside a loop
\* body, between its lock and the end of its tests.
C16_NoLockWhileWaiting ==
    /\ \A t \in Threads : \A e \in EndPoints :
           pc[t] \in {"wait", "enq", "bcast", "sd_bcast", "sd_wake",
                      "nb_wake", "polled", "idle", "done"}
           => inner[e] # t
    /\ \A e \in EndPoints :
           inner[e] # NoThread
           => /\ inner[e] \in Workers
              /\ EndPoint(inner[e]) = e
              /\ pc[inner[e]] \in {"op", "peer"}

\* The producer is parked, the consumer is at its broadcast and the third
\* thread is at the broadcast of a shutdown.
C16_Witness ==
    /\ pc["p"] = "wait"
    /\ ~woken["p"]
    /\ pc["c"] = "bcast"
    /\ pc["a"] = "sd_bcast"

\* ----------------------------------------------------------------- C17
\* C17 as stated: once the consumer's shutdown flag is set, no push or
\* push_slice writes an item, and a push or push_slice that had written
\* nothing when the flag was set does not return Ok.
C17_NoPushAfterConsumerShutdown ==
    [][is_consumer_shutdown
       => /\ pushed' = pushed
          /\ (pc["p"] \in {"lock", "op", "enq", "wait"} /\ pc'["p"] = "done")
             => call'["p"].res # "Ok"]_vars

\* ----------------------------------------------------------------- C18
\* C18: once the producer's shutdown flag is set no step writes an item, so
\* the number of buffered items never increases; once the consumer's
\* shutdown flag is set no step takes an item, so with the producer's flag
\* set it never changes and otherwise it never decreases.
C18_OwnShutdownSerializes ==
    [][/\ is_producer_shutdown
          => /\ pushed' = pushed
             /\ Len(rb') <= Len(rb)
       /\ is_consumer_shutdown
          => /\ popped' = popped
             /\ Len(rb') >= Len(rb)]_vars

\* Both flags were set while a push that has written and a pop that has
\* taken were on their way to their broadcasts, and an item is buffered.
C18_Witness ==
    /\ is_producer_shutdown
    /\ is_consumer_shutdown
    /\ pc["p"] = "bcast"
    /\ pc["c"] = "bcast"
    /\ rb # <<>>

C20_PushSlicePartialWrite ==
    /\ [][(/\ pc["p"] = "op"
           /\ call["p"].op = "push_slice"
           /\ pc'["p"] # "op")
          => LET n == call["p"].n
                 f == capacity - Len(rb)
                 items == [i \in 1..Min(n, f) |-> Len(pushed) + i]
             IN  IF n >= 1 /\ f >= 1
                 THEN /\ rb' = rb \o items
                      /\ pushed' = pushed \o items
                      /\ call'["p"].val = items
                      /\ pc'["p"] = "bcast"
                 ELSE /\ rb' = rb
                      /\ pushed' = pushed
                      /\ IF is_nonblocking["P"]
                         THEN pc'["p"] = "done" /\ call'["p"].res = "EAGAIN"
                         ELSE pc'["p"] \in {"enq", "wait"}]_vars
    /\ [][(/\ pc["p"] = "bcast"
           /\ call["p"].op = "push_slice"
           /\ pc'["p"] # "bcast")
          => /\ pc'["p"] = "done"
             /\ call'["p"].res = "Ok"
             /\ call'["p"].val = call["p"].val
             /\ Len(call'["p"].val) >= 1
             /\ Len(call'["p"].val) <= call["p"].n
             /\ returned'["p"] = returned["p"] \o call["p"].val
             /\ rb' = rb
             /\ waiter_queue'["C"] = <<>>
             /\ \A t \in InQueue("C") : woken'[t]]_vars

\* A push_slice of two items on a buffer of capacity 1 has returned Ok(1),
\* and its item woke the pop that was parked.
C20_Witness ==
    /\ Done("p")
    /\ call["p"].op = "push_slice"
    /\ call["p"].n = 2
    /\ call["p"].res = "Ok"
    /\ call["p"].val = <<1>>
    /\ capacity = 1
    /\ pc["c"] = "wait"
    /\ woken["c"]

====
